---- MODULE Spec2Model ----
(***************************************************************************)
(* Model of omni.isaac.orbit.utils.dict: class_to_dict,                    *)
(* update_class_from_dict, update_dict and _string_to_callable.            *)
(*                                                                         *)
(* A Python value is a record [kind, n, toks, items, flds]:                *)
(*   kind  - the Python type of the value                                  *)
(*   n     - the number held by an int or a bool                           *)
(*   toks  - the characters of a str; <<module, name>> of a function       *)
(*   items - the elements of a list or a tuple                             *)
(*   flds  - the (key, value) items of a dict, or the __dict__ of a class  *)
(*           instance, in insertion order                                  *)
(***************************************************************************)
EXTENDS Integers, Sequences, FiniteSets, TLC

VARIABLES pc, cfg, old, data, err, src, out, base, overlay, dec, timer, kbd

dictVars == <<pc, cfg, old, data, err, src, out, base, overlay>>
vars == <<pc, cfg, old, data, err, src, out, base, overlay, dec, timer, kbd>>

(* ---- bounds of the model ---- *)
MaxInt == 1
MaxLen == 2

(* ---- Python values ---- *)
Val(kind, n, toks, items, flds) ==
    [kind |-> kind, n |-> n, toks |-> toks, items |-> items, flds |-> flds]

PyNone == Val("NoneType", 0, <<>>, <<>>, <<>>)
PyBool(b) == Val("bool", IF b THEN 1 ELSE 0, <<>>, <<>>, <<>>)
PyInt(n) == Val("int", n, <<>>, <<>>, <<>>)
PyStr(toks) == Val("str", 0, toks, <<>>, <<>>)
PyList(items) == Val("list", 0, <<>>, items, <<>>)
PyTuple(items) == Val("tuple", 0, <<>>, items, <<>>)
PyDict(flds) == Val("dict", 0, <<>>, <<>>, flds)
PyObject(flds) == Val("object", 0, <<>>, <<>>, flds)
PyFunc(mod, name) == Val("function", 0, <<mod, name>>, <<>>, <<>>)

Item(k, v) == [key |-> k, val |-> v]

(* ---- Python predicates used by the code ---- *)
IsMapping(v) == v.kind = "dict"
IsCallable(v) == v.kind = "function"
HasDict(v) == v.kind \in {"object", "function"}
IsIterable(v) == v.kind \in {"list", "tuple", "str", "dict"}
IsStr(v) == v.kind = "str"
HasLen(v) == v.kind \in {"list", "tuple", "str", "dict"}
PyLen(v) ==
    CASE v.kind \in {"list", "tuple"} -> Len(v.items)
      [] v.kind = "str" -> Len(v.toks)
      [] OTHER -> Len(v.flds)

(* mro of the builtin types: bool is a subclass of int *)
SubclassOf(t, u) == t = u \/ (t = "bool" /\ u = "int")

IsInstanceExact(value, obj_mem) == value.kind = obj_mem.kind
IsInstance(value, obj_mem) == SubclassOf(value.kind, obj_mem.kind)

DunderKeys == {"__doc"}
StartsWithDunder(key) == key \in DunderKeys

(* ---- attribute and item access ---- *)
KeysOf(v) == {v.flds[i].key : i \in 1..Len(v.flds)}
IndexOf(v, k) == CHOOSE i \in 1..Len(v.flds) : v.flds[i].key = k
Get(v, k) == v.flds[IndexOf(v, k)].val
Put(v, k, x) ==
    IF k \in KeysOf(v)
    THEN [v EXCEPT !.flds[IndexOf(v, k)].val = x]
    ELSE [v EXCEPT !.flds = Append(v.flds, Item(k, x))]

HasAttr(obj, key) == obj.kind = "object" /\ key \in KeysOf(obj)
GetAttr(obj, key) == Get(obj, key)
SetAttr(obj, key, value) == Put(obj, key, value)

(* ---- errors ---- *)
Error(exc, why, ns, expLen, recLen, expType, recType) ==
    [exc |-> exc, why |-> why, ns |-> ns, expLen |-> expLen, recLen |-> recLen,
     expType |-> expType, recType |-> recType]
NoError == Error("", "none", <<>>, 0, 0, "", "")
Raise(exc, why) == Error(exc, why, <<>>, 0, 0, "", "")
Failed(e) == e.why # "none"

(* ---- _string_to_callable ---- *)
(* the modules importlib can load, and the attributes they define *)
ModuleNames == {"m"}
ModuleAttrs == {"f", "g", "c"}
ModuleAttr(mod, attr) == IF attr = "c" THEN PyInt(0) ELSE PyFunc(mod, attr)

ColonsIn(toks) == {i \in 1..Len(toks) : toks[i] = ":"}
Split(toks) ==
    LET c == CHOOSE i \in ColonsIn(toks) : TRUE
    IN  <<SubSeq(toks, 1, c - 1), SubSeq(toks, c + 1, Len(toks))>>

Ret(v) == [val |-> v, err |-> NoError]
Throw(e) == [val |-> PyNone, err |-> e]

string_to_callable(name) ==
    IF ~IsStr(name)
    THEN Throw(Raise("ValueError", "NotInterpretable"))
    ELSE IF Cardinality(ColonsIn(name.toks)) # 1
    THEN Throw(Raise("ValueError", "Format"))
    ELSE LET mod_name == Split(name.toks)[1]
             attr_name == Split(name.toks)[2]
         IN  IF Len(mod_name) = 0
             THEN Throw(Raise("ValueError", "EmptyModule"))
             ELSE IF ~(Len(mod_name) = 1 /\ mod_name[1] \in ModuleNames)
             THEN Throw(Raise("ModuleNotFoundError", "NoModule"))
             ELSE IF ~(Len(attr_name) = 1 /\ attr_name[1] \in ModuleAttrs)
             THEN Throw(Raise("ValueError", "NotInterpretable"))
             ELSE IF IsCallable(ModuleAttr(mod_name[1], attr_name[1]))
             THEN Ret(ModuleAttr(mod_name[1], attr_name[1]))
             ELSE Throw(Raise("ValueError", "NotCallable"))

(* the text of the exception _string_to_callable raises, as the pieces it is
   made of; an f-string puts the characters of name into it *)
NameText(name) == IF IsStr(name) THEN name.toks ELSE <<name.kind>>
string_to_callable_message(name) ==
    LET why == string_to_callable(name).err.why IN
    CASE why = "none" -> <<>>
      [] why = "Format" -> <<"values to unpack">>
      [] why = "EmptyModule" -> <<"Empty module name">>
      [] why = "NoModule" -> <<"No module named">> \o Split(name.toks)[1]
      [] why = "NotCallable" ->
            <<"The imported object is not callable">> \o NameText(name)
      [] OTHER ->
            <<"While processing input">> \o NameText(name) \o <<"received the error">>

(* ---- class_to_dict ---- *)
EncodeCallable(value) == PyStr(<<value.toks[1], ":", value.toks[2]>>)

RECURSIVE class_to_dict(_)
RECURSIVE ItemsToDict(_, _, _)
ItemsToDict(flds, i, dat) ==
    IF i > Len(flds) THEN dat
    ELSE LET key == flds[i].key
             value == flds[i].val
         IN  IF StartsWithDunder(key) THEN ItemsToDict(flds, i + 1, dat)
             ELSE IF IsCallable(value)
             THEN ItemsToDict(flds, i + 1, Put(dat, key, EncodeCallable(value)))
             ELSE IF HasDict(value) \/ IsMapping(value)
             THEN ItemsToDict(flds, i + 1, Put(dat, key, class_to_dict(value)))
             ELSE ItemsToDict(flds, i + 1, Put(dat, key, value))

class_to_dict(obj) == ItemsToDict(obj.flds, 1, PyDict(<<>>))

(* ---- update_class_from_dict ---- *)
Done(o) == [obj |-> o, err |-> NoError]
Fail(o, e) == [obj |-> o, err |-> e]

(* value[k] for a str key k *)
Subscript(value, k) ==
    IF ~IsMapping(value) THEN Throw(Raise("TypeError", "NotSubscriptable"))
    ELSE IF k \notin KeysOf(value) THEN Throw(Raise("KeyError", "MissingItem"))
    ELSE Ret(Get(value, k))

(* lines 83-85: decode the entries of value that are callable in obj_mem *)
RECURSIVE DecodeCallables(_, _, _)
DecodeCallables(obj_mem, value, i) ==
    IF i > Len(obj_mem.flds) THEN Ret(value)
    ELSE LET k == obj_mem.flds[i].key
             v == obj_mem.flds[i].val
         IN  IF ~IsCallable(v) THEN DecodeCallables(obj_mem, value, i + 1)
             ELSE IF Failed(Subscript(value, k).err) THEN Throw(Subscript(value, k).err)
             ELSE LET f == string_to_callable(Subscript(value, k).val)
                  IN  IF Failed(f.err) THEN Throw(f.err)
                      ELSE DecodeCallables(obj_mem, Put(value, k, f.val), i + 1)

KeyNsFlat(ns, key) == <<"/", key>>
KeyNs(ns, key) == ns \o <<"/", key>>

LengthDiffersLonger(obj_mem, value) == PyLen(obj_mem) < PyLen(value) /\ obj_mem # PyNone
(* the condition of line 92, once len(obj_mem) has been taken *)
LengthDiffers(obj_mem, value) == PyLen(obj_mem) # PyLen(value) /\ obj_mem # PyNone

RECURSIVE MergeItems(_, _, _, _)
(* one iteration of the loop of line 76, on the item (key, value) *)
MergeItem(obj, key, value, ns) ==
    LET key_ns == KeyNs(ns, key) IN
    IF ~HasAttr(obj, key)
    THEN Fail(obj, Error("KeyError", "UnknownKey", key_ns, 0, 0, "", ""))
    ELSE LET obj_mem == GetAttr(obj, key) IN
         IF IsMapping(obj_mem)
         THEN LET d == DecodeCallables(obj_mem, value, 1)
              IN  IF Failed(d.err) THEN Fail(obj, d.err)
                  ELSE Done(SetAttr(obj, key, d.val))
         ELSE IF IsMapping(value)
         THEN LET r == MergeItems(obj_mem, value.flds, key_ns, 1)
              IN  Fail(SetAttr(obj, key, r.obj), r.err)
         ELSE IF IsIterable(value) /\ ~IsStr(value)
         THEN IF ~HasLen(obj_mem) THEN Fail(obj, Raise("TypeError", "NoLen"))
              ELSE IF LengthDiffers(obj_mem, value)
              THEN Fail(obj, Error("ValueError", "LengthMismatch", key_ns,
                                   PyLen(obj_mem), PyLen(value), "", ""))
              ELSE Done(SetAttr(obj, key, value))
         ELSE IF IsCallable(obj_mem)
         THEN LET f == string_to_callable(value)
              IN  IF Failed(f.err) THEN Fail(obj, f.err)
                  ELSE Done(SetAttr(obj, key, f.val))
         ELSE IF IsInstance(value, obj_mem)
         THEN Done(SetAttr(obj, key, value))
         ELSE Fail(obj, Error("ValueError", "TypeMismatch", key_ns, 0, 0,
                              obj_mem.kind, value.kind))

MergeItemsAtomic(obj, items, ns, i) ==
    IF i > Len(items) THEN Done(obj)
    ELSE LET r == MergeItem(obj, items[i].key, items[i].val, ns)
         IN  IF Failed(r.err) THEN Fail(obj, r.err)
             ELSE LET rest == MergeItems(r.obj, items, ns, i + 1)
                  IN  IF Failed(rest.err) THEN Fail(obj, rest.err) ELSE rest

(* the loop of line 76 from the i-th item on: it stops at the first exception *)
MergeItems(obj, items, ns, i) ==
    IF i > Len(items) THEN Done(obj)
    ELSE LET r == MergeItem(obj, items[i].key, items[i].val, ns)
         IN  IF Failed(r.err) THEN r
             ELSE MergeItems(r.obj, items, ns, i + 1)

update_class_from_dict(obj, dat) == MergeItems(obj, dat.flds, <<>>, 1)

(* ---- update_dict ---- *)
RECURSIVE UpdateItems(_, _, _)
UpdateItems(orig_dict, items, i) ==
    IF i > Len(items) THEN Ret(orig_dict)
    ELSE LET keyname == items[i].key
             value == items[i].val
         IN  IF IsMapping(value)
             THEN IF ~IsMapping(orig_dict)
                  THEN [val |-> orig_dict, err |-> Raise("AttributeError", "NoGet")]
                  ELSE LET sub == IF keyname \in KeysOf(orig_dict)
                                  THEN Get(orig_dict, keyname) ELSE PyDict(<<>>)
                           r == UpdateItems(sub, value.flds, 1)
                       IN  IF Failed(r.err)
                           THEN [val |-> IF keyname \in KeysOf(orig_dict)
                                         THEN Put(orig_dict, keyname, r.val)
                                         ELSE orig_dict,
                                 err |-> r.err]
                           ELSE UpdateItems(Put(orig_dict, keyname, r.val), items, i + 1)
             ELSE IF ~IsMapping(orig_dict)
             THEN [val |-> orig_dict, err |-> Raise("TypeError", "NoItemAssignment")]
             ELSE UpdateItems(Put(orig_dict, keyname, value), items, i + 1)

update_dict(orig_dict, new_dict) == UpdateItems(orig_dict, new_dict.flds, 1)

(* ---- the inputs the calls are made with ---- *)
Rep(v, k) == [i \in 1..k |-> v]

(* values a loaded mapping offers for a field *)
IncLeaves ==
    {PyNone, PyBool(TRUE), PyStr(<<"x">>), PyStr(<<"m", ":", "f">>), PyTuple(Rep(PyInt(1), 1))}
    \cup {PyInt(n) : n \in 0..MaxInt}
    \cup {PyList(Rep(PyInt(1), k)) : k \in 0..MaxLen}
SmallLeaves == {PyInt(1), PyStr(<<"x">>), PyList(Rep(PyInt(1), MaxLen))}

TopKeys == {"a", "b", "zz"}
InnerKeys == {"p", "q", "zz"}
KeyPairs == {<<"a", "b">>, <<"b", "a">>, <<"a", "zz">>, <<"zz", "a">>}

InnerDicts ==
    {PyDict(<<>>)}
    \cup {PyDict(<<Item(k, v)>>) : k \in InnerKeys, v \in IncLeaves}
    \cup {PyDict(<<Item(k[1], v[1]), Item(k[2], v[2])>>) :
            k \in {kk \in InnerKeys \X InnerKeys : kk[1] # kk[2] /\ kk[1] # "zz"},
            v \in SmallLeaves \X SmallLeaves}
IncVals == IncLeaves \cup InnerDicts
SmallVals == SmallLeaves \cup {PyDict(<<Item("p", PyInt(1))>>), PyDict(<<Item("zz", PyInt(1))>>)}

Data ==
    {PyDict(<<Item(k, v)>>) : k \in TopKeys, v \in IncVals}
    \cup {PyDict(<<Item(k[1], v[1]), Item(k[2], v[2])>>) :
            k \in KeyPairs, v \in SmallVals \X SmallVals}

(* mappings laid over a serialized configuration *)
Overlays ==
    {PyDict(<<Item(k, v)>>) :
        k \in TopKeys,
        v \in SmallLeaves \cup {PyDict(<<>>)}
              \cup {PyDict(<<Item(kk, w)>>) :
                      kk \in {"p", "zz"}, w \in SmallLeaves \cup {PyDict(<<Item("p", PyInt(1))>>)}}}
    \cup {PyDict(<<Item(k[1], v[1]), Item(k[2], v[2])>>) :
            k \in KeyPairs, v \in SmallVals \X SmallVals}

(* values a constructed configuration object holds in a field *)
InnerCur == {PyInt(0), PyStr(<<"x">>), PyList(Rep(PyInt(0), MaxLen)), PyFunc("m", "g")}
NestedObjects ==
    {PyObject(<<Item("p", v)>>) : v \in InnerCur}
    \cup {PyObject(<<Item("p", v), Item("q", w)>>) :
            v \in InnerCur, w \in {PyInt(0), PyList(Rep(PyInt(0), MaxLen))}}
FieldVals ==
    {PyNone, PyBool(FALSE), PyInt(0), PyStr(<<"x">>), PyFunc("m", "g"),
     PyList(<<PyFunc("m", "g")>>),
     PyDict(<<>>), PyDict(<<Item("p", PyInt(0)), Item("q", PyInt(0))>>),
     PyDict(<<Item("p", PyFunc("m", "g")), Item("q", PyInt(0))>>)}
    \cup {PyList(Rep(PyInt(0), k)) : k \in 0..MaxLen}
    \cup NestedObjects
SecondVals == {PyInt(0), PyList(Rep(PyInt(0), MaxLen)), PyObject(<<Item("p", PyInt(0))>>)}

Cfgs ==
    {PyObject(<<Item("a", v)>>) : v \in FieldVals}
    \cup {PyObject(<<Item("a", v), Item("b", w)>>) : v \in FieldVals, w \in SecondVals}
    \cup {PyObject(<<Item("__doc", PyStr(<<"x">>)), Item("a", PyInt(0))>>)}

(* same field names and nesting *)
RECURSIVE SameSchema(_, _)
SameSchema(o1, o2) ==
    /\ Len(o1.flds) = Len(o2.flds)
    /\ \A i \in 1..Len(o1.flds) :
        /\ o1.flds[i].key = o2.flds[i].key
        /\ (o1.flds[i].val.kind = "object") = (o2.flds[i].val.kind = "object")
        /\ o1.flds[i].val.kind = "object" => SameSchema(o1.flds[i].val, o2.flds[i].val)

RECURSIVE HasInvocable(_)
HasInvocable(v) ==
    \/ IsCallable(v)
    \/ \E i \in 1..Len(v.items) : HasInvocable(v.items[i])
    \/ \E i \in 1..Len(v.flds) : HasInvocable(v.flds[i].val)

(* ---- the state machine ---- *)
(* the components a specification does not exercise stay as constructed *)
DecIdle == [pc |-> "idle", name |-> PyNone, ret |-> PyNone, err |-> NoError, msg |-> <<>>]
TimerIdle ==
    [op |-> "idle",
     obj |-> [_start_time |-> {}, _stop_time |-> {}, _elapsed_time |-> {}],
     prev |-> [_start_time |-> {}, _stop_time |-> {}, _elapsed_time |-> {}],
     raised |-> FALSE, now |-> 0, at |-> 0, started |-> {}, has_msg |-> FALSE, printed |-> {}]
KbdIdle ==
    [op |-> "idle", buf |-> [pos |-> <<0, 0, 0>>, rot |-> <<0, 0, 0>>, grip |-> FALSE],
     held |-> {}, resets |-> 0,
     cmd |-> [pos |-> <<0, 0, 0>>, rot_vec_zero |-> TRUE, grip |-> FALSE]]
DictIdle ==
    /\ pc = "idle" /\ cfg = PyNone
    /\ old = PyNone /\ data = PyNone /\ src = PyNone
    /\ out = PyNone /\ base = PyNone /\ overlay = PyNone
    /\ err = NoError

Init ==
    /\ pc = "ready"
    /\ cfg \in Cfgs
    /\ old = PyNone /\ data = PyNone /\ src = PyNone
    /\ out = PyNone /\ base = PyNone /\ overlay = PyNone
    /\ err = NoError
    /\ dec = DecIdle /\ timer = TimerIdle /\ kbd = KbdIdle

(* update_class_from_dict(cfg, d) *)
Merge(d) ==
    /\ pc = "ready"
    /\ pc' = "merged"
    /\ old' = cfg /\ data' = d
    /\ cfg' = update_class_from_dict(cfg, d).obj
    /\ err' = update_class_from_dict(cfg, d).err
    /\ UNCHANGED <<src, out, base, overlay, dec, timer, kbd>>

(* update_class_from_dict(cfg, class_to_dict(o)) *)
RoundTrip(o) ==
    /\ pc = "ready"
    /\ SameSchema(o, cfg) /\ ~HasInvocable(o)
    /\ pc' = "roundtrip"
    /\ old' = cfg /\ src' = o /\ data' = class_to_dict(o)
    /\ cfg' = update_class_from_dict(cfg, class_to_dict(o)).obj
    /\ err' = update_class_from_dict(cfg, class_to_dict(o)).err
    /\ UNCHANGED <<out, base, overlay, dec, timer, kbd>>

(* out = class_to_dict(cfg) *)
Serialize ==
    /\ pc = "ready"
    /\ pc' = "serialized"
    /\ out' = class_to_dict(cfg)
    /\ UNCHANGED <<cfg, old, data, err, src, base, overlay, dec, timer, kbd>>

(* update_dict(out, d) *)
UpdateDict(d) ==
    /\ pc = "serialized"
    /\ pc' = "updated"
    /\ base' = out /\ overlay' = d
    /\ out' = update_dict(out, d).val
    /\ err' = update_dict(out, d).err
    /\ UNCHANGED <<cfg, old, data, src, dec, timer, kbd>>

Next ==
    \/ \E d \in Data : Merge(d)
    \/ \E o \in Cfgs : RoundTrip(o)
    \/ Serialize
    \/ \E d \in Overlays : UpdateDict(d)

Spec == Init /\ [][Next]_vars

(***************************************************************************)
(* The call sites a state records: the first item of the incoming mapping  *)
(* against the object, and the first item of a nested mapping against the  *)
(* nested object the call recursed into.  o is the object before the call, *)
(* n the object after it, last tells that no other item follows.           *)
(***************************************************************************)
Called == pc \in {"merged", "roundtrip"} /\ Len(data.flds) > 0
Key1 == data.flds[1].key
Val1 == data.flds[1].val

Site(o, n, key, val, ns, last) ==
    [o |-> o, n |-> n, key |-> key, val |-> val, ns |-> ns, last |-> last]
Sites ==
    IF ~Called THEN {}
    ELSE {Site(old, cfg, Key1, Val1, <<>>, Len(data.flds) = 1)}
         \cup IF /\ HasAttr(old, Key1)
                 /\ Get(old, Key1).kind = "object"
                 /\ IsMapping(Val1) /\ Len(Val1.flds) > 0
              THEN {Site(Get(old, Key1), Get(cfg, Key1), Val1.flds[1].key, Val1.flds[1].val,
                         <<"/", Key1>>, Len(data.flds) = 1 /\ Len(Val1.flds) = 1)}
              ELSE {}
FieldSites == {s \in Sites : HasAttr(s.o, s.key)}
Cur(s) == Get(s.o, s.key)
Path(s) == s.ns \o <<"/", s.key>>

(* the field now holds v, and the call did not fail on this item *)
HoldsAt(s, v) ==
    /\ Get(s.n, s.key) = v
    /\ Failed(err) => ~s.last /\ err.ns # Path(s)
AssignedAt(s) == HoldsAt(s, s.val)
(* the call failed on this item with the error why, and the object is as before *)
RejectedAt(s, exc, why) ==
    /\ err.exc = exc /\ err.why = why /\ err.ns = Path(s)
    /\ s.n = s.o

IsSeq(v) == v.kind \in {"list", "tuple"}
IsPlainScalar(v) == v.kind \in {"NoneType", "bool", "int", "str"}

(* C1 (as amended): for a field whose current value is neither a mapping nor
   callable and an incoming value that is neither a mapping nor a non-string
   sequence, the value is assigned if and only if it is an instance of the
   current value's type: its type is that type or a subclass of it, so a
   boolean offered to an integer field is assigned.  Any other value is
   rejected with a ValueError that names the path, the expected and the
   received type, and the field keeps its previous value. *)
C1_InstanceTypeCheck ==
    \A s \in FieldSites :
        (~IsMapping(Cur(s)) /\ ~IsCallable(Cur(s)) /\ IsPlainScalar(s.val)) =>
            IF s.val.kind = Cur(s).kind \/ (s.val.kind = "bool" /\ Cur(s).kind = "int")
            THEN AssignedAt(s)
            ELSE /\ RejectedAt(s, "ValueError", "TypeMismatch")
                 /\ err.expType = Cur(s).kind /\ err.recType = s.val.kind

(* C1 witness: a boolean was offered to an integer field and assigned *)
C1_Witness ==
    \E s \in FieldSites :
        /\ Cur(s).kind = "int" /\ s.val = PyBool(TRUE)
        /\ Get(s.n, s.key) = PyBool(TRUE) /\ ~Failed(err)

(* C1 (original statement): the value is assigned if and only if its type is
   exactly the current value's type; a subclass is rejected. *)
C1_ExactTypeCheck ==
    \A s \in FieldSites :
        (~IsMapping(Cur(s)) /\ ~IsCallable(Cur(s)) /\ IsPlainScalar(s.val)) =>
            IF s.val.kind = Cur(s).kind
            THEN AssignedAt(s)
            ELSE RejectedAt(s, "ValueError", "TypeMismatch")

(* C2: when the current value is a non-empty sequence of length n and the
   incoming value a non-string sequence of length m, then m # n fails with the
   length error reporting expected n and received m and leaves the field as it
   was, and m = n makes the field the incoming sequence as a whole. *)
C2_SequenceLength ==
    \A s \in FieldSites :
        (IsSeq(Cur(s)) /\ Len(Cur(s).items) > 0 /\ IsSeq(s.val)) =>
            IF Len(s.val.items) # Len(Cur(s).items)
            THEN /\ RejectedAt(s, "ValueError", "LengthMismatch")
                 /\ err.expLen = Len(Cur(s).items) /\ err.recLen = Len(s.val.items)
            ELSE AssignedAt(s)

(* C2 witness: a shorter sequence was refused by a field holding a longer one *)
C2_Witness ==
    \E s \in FieldSites :
        /\ IsSeq(Cur(s)) /\ IsSeq(s.val)
        /\ 0 < Len(s.val.items) /\ Len(s.val.items) < Len(Cur(s).items)
        /\ err.why = "LengthMismatch" /\ err.expLen > err.recLen
        /\ cfg = old

(* an equally long sequence with other elements replaced the field *)
SequenceReplaced ==
    \E s \in FieldSites :
        /\ IsSeq(Cur(s)) /\ IsSeq(s.val) /\ Len(Cur(s).items) > 0
        /\ Len(s.val.items) = Len(Cur(s).items) /\ s.val # Cur(s)
        /\ Get(s.n, s.key) = s.val /\ ~Failed(err)

(* C3: when the current value is absent (None) or an empty sequence, an
   incoming non-string sequence of any length is assigned wholesale and the
   merge does not fail. *)
C3_AbsentOrEmptyAcceptsAnyLength ==
    \A s \in FieldSites :
        ((Cur(s) = PyNone \/ (IsSeq(Cur(s)) /\ Len(Cur(s).items) = 0)) /\ IsSeq(s.val)) =>
            AssignedAt(s)

(* the incoming mapping as line 86 assigns it: the entries under the keys that
   are callable in cur decoded, the others as they came *)
WithDecoded(cur, value) ==
    PyDict([i \in 1..Len(value.flds) |->
        IF value.flds[i].key \in KeysOf(cur) /\ IsCallable(Get(cur, value.flds[i].key))
        THEN Item(value.flds[i].key, string_to_callable(value.flds[i].val).val)
        ELSE value.flds[i]])
Decodable(cur, value) ==
    \A i \in 1..Len(value.flds) :
        (value.flds[i].key \in KeysOf(cur) /\ IsCallable(Get(cur, value.flds[i].key)))
            => ~Failed(string_to_callable(value.flds[i].val).err)

(* C4: when the current value is a generic mapping, merging a mapping value
   (whose entries under callable keys are valid encodings) succeeds and
   replaces the field wholesale: the field's keys are exactly the incoming
   keys, only the entries under keys that are callable in the current mapping
   and present in the value are decoded, and a callable key of the current
   mapping that the value omits does not make the merge fail. *)
C4_MappingFieldReplacedWholesale ==
    \A s \in FieldSites :
        (IsMapping(Cur(s)) /\ IsMapping(s.val) /\ Decodable(Cur(s), s.val)) =>
            /\ HoldsAt(s, WithDecoded(Cur(s), s.val))
            /\ KeysOf(Get(s.n, s.key)) = KeysOf(s.val)

(* the call whose mapping holds the one item it *)
Single(o, it, ns) == MergeItems(o, <<it>>, ns, 1)
EarlierOk(o, items, i, ns) == \A j \in 1..(i - 1) : ~Failed(Single(o, items[j], ns).err)
UnknownKeyAt(path) == Error("KeyError", "UnknownKey", path, 0, 0, "", "")
Recurses(o, it) == HasAttr(o, it.key) /\ ~IsMapping(Get(o, it.key)) /\ IsMapping(it.val)

(* C5 (as amended): the call fails whenever the incoming mapping names a key
   the object has no field for, whatever the other contents and the value;
   the error is the unknown-key KeyError for that key unless an earlier key,
   in iteration order, has already failed with its own error.  When the
   missing key sits in a nested mapping reached by recursion, the path of the
   error is the slash-joined chain of the keys from the top-level call down to
   it.  A call whose only key is unknown does not modify the object. *)
C5_UnknownKey ==
    Called =>
        /\ \A i \in 1..Len(data.flds) :
              ~HasAttr(old, data.flds[i].key) =>
                  /\ Failed(err)
                  /\ EarlierOk(old, data.flds, i, <<>>) =>
                        err = UnknownKeyAt(<<"/", data.flds[i].key>>)
        /\ \A i \in 1..Len(data.flds) :
              Recurses(old, data.flds[i]) =>
                  LET key == data.flds[i].key
                      sub == Get(old, key)
                      inner == data.flds[i].val.flds
                  IN  \A j \in 1..Len(inner) :
                        ~HasAttr(sub, inner[j].key) =>
                            /\ Failed(err)
                            /\ (EarlierOk(old, data.flds, i, <<>>)
                                 /\ EarlierOk(sub, inner, j, <<"/", key>>)) =>
                                  err = UnknownKeyAt(<<"/", key, "/", inner[j].key>>)
        /\ (Len(data.flds) = 1 /\ ~HasAttr(old, Key1)) => cfg = old

(* C5 witness: an unknown key of a nested mapping, reported with the whole path *)
C5_Witness ==
    /\ Called /\ Recurses(old, data.flds[1]) /\ Get(old, Key1).kind = "object"
    /\ err = UnknownKeyAt(<<"/", Key1, "/", "zz">>)

(* C5 (original statement): the call fails with the unknown-key error whenever
   the incoming mapping names a key the object has no field for. *)
C5_UnknownKeyWhenever ==
    Called =>
        \A i \in 1..Len(data.flds) :
            ~HasAttr(old, data.flds[i].key) =>
                err.exc = "KeyError" /\ err.why = "UnknownKey"

(* o became n by a run of the items that stopped with e: the items before the
   failing one are applied, the failing one and the later ones are not, and
   inside a recursion the same holds of the nested object *)
RECURSIVE PartlyApplied(_, _, _, _, _)
PartlyApplied(o, n, items, ns, e) ==
    /\ n.kind = o.kind /\ KeysOf(n) = KeysOf(o)
    /\ o.kind # "object" => n = o
    /\ \A k \in KeysOf(o) : (\A j \in 1..Len(items) : items[j].key # k) => Get(n, k) = Get(o, k)
    /\ \E i \in 1..Len(items) :
        /\ \A j \in 1..(i - 1) :
              /\ ~Failed(Single(o, items[j], ns).err)
              /\ Get(n, items[j].key) = Get(Single(o, items[j], ns).obj, items[j].key)
              /\ (~IsMapping(Get(o, items[j].key)) /\ ~IsCallable(Get(o, items[j].key))
                  /\ ~IsMapping(items[j].val)) => Get(n, items[j].key) = items[j].val
        /\ Single(o, items[i], ns).err = e
        /\ \A j \in (i + 1)..Len(items) :
              HasAttr(o, items[j].key) => Get(n, items[j].key) = Get(o, items[j].key)
        /\ HasAttr(o, items[i].key) =>
              IF Recurses(o, items[i])
              THEN PartlyApplied(Get(o, items[i].key), Get(n, items[i].key),
                                 items[i].val.flds, ns \o <<"/", items[i].key>>, e)
              ELSE Get(n, items[i].key) = Get(o, items[i].key)

(* C6: the merge is not transactional.  When it fails at some key, at any
   depth, every field assigned by an earlier key of the same call, inside
   completed or partly completed recursive calls too, keeps its new value, and
   the fields named by the failing key and by the later keys keep their old
   value. *)
C6_NotTransactional ==
    (Called /\ Failed(err)) => PartlyApplied(old, cfg, data.flds, <<>>, err)

(* C6 witness: a nested call assigned its first field and failed on its
   second, and the first field keeps the new value *)
C6_Witness ==
    /\ Called /\ Failed(err) /\ Len(err.ns) = 4
    /\ Recurses(old, data.flds[1]) /\ Len(Val1.flds) = 2
    /\ err.ns[4] = Val1.flds[2].key
    /\ Get(Get(cfg, Key1), Val1.flds[1].key) = Val1.flds[1].val
    /\ Get(Get(old, Key1), Val1.flds[1].key) # Val1.flds[1].val

(* o2 has the schema of o1: the same field names and nesting and, field for
   field, a value of the same type, a sequence field of o2 being as long as
   o1's unless o1's is absent (None) or empty *)
RECURSIVE SameTypes(_, _)
SameTypes(o1, o2) ==
    /\ SameSchema(o1, o2)
    /\ \A i \in 1..Len(o1.flds) :
        LET v1 == o1.flds[i].val
            v2 == o2.flds[i].val
        IN  IF v1.kind = "object" THEN SameTypes(v1, v2)
            ELSE IF IsSeq(v2)
            THEN v1 = PyNone \/ (v1.kind = v2.kind /\ Len(v1.items) \in {0, Len(v2.items)})
            ELSE v1.kind = v2.kind

(* C7: for an object o without invocable fields and a default-constructed
   object o' of the same schema, merging class_to_dict(o) into o' succeeds and
   leaves o' equal to o, field for field, at every level. *)
C7_RoundTrip ==
    (pc = "roundtrip" /\ SameTypes(old, src)) => (~Failed(err) /\ cfg = src)

(* the kind of a value: scalar, sequence, generic mapping, nested object or
   callable reference *)
Kind(v) ==
    CASE IsCallable(v) -> "callable"
      [] IsMapping(v) -> "mapping"
      [] v.kind = "object" -> "nested"
      [] IsSeq(v) -> "sequence"
      [] OTHER -> "scalar"
OffersKind(value, kind) ==
    CASE kind \in {"mapping", "nested"} -> IsMapping(value)
      [] kind = "sequence" -> IsSeq(value)
      [] kind = "callable" -> IsStr(value) \/ IsCallable(value)
      [] OTHER -> IsPlainScalar(value)

RECURSIVE KindsKept(_, _)
KindsKept(o, n) ==
    /\ KeysOf(n) = KeysOf(o)
    /\ \A k \in KeysOf(o) :
        /\ Kind(Get(n, k)) = Kind(Get(o, k))
        /\ Kind(Get(o, k)) = "nested" => KindsKept(Get(o, k), Get(n, k))

(* C8: after any merge, successful or failed, every field holds a value of the
   kind it held before, and an incoming value of a structurally different kind
   is refused with an error instead of being assigned. *)
C8_KindPreserved ==
    Called =>
        /\ KindsKept(old, cfg)
        /\ \A s \in FieldSites :
              ~OffersKind(s.val, Kind(Cur(s))) => (Failed(err) /\ s.n = s.o)

(* C9: the mapping class_to_dict returns holds no raw invocable at any
   position, inside nested mappings and sequences included. *)
C9_NoRawInvocable ==
    pc = "serialized" => ~HasInvocable(out)

(* C10: update_dict(base, overlay) returns base changed so that, for each key
   of overlay, a mapping laid over a mapping is merged into it recursively and
   in every other case base[key] becomes the overlay value without any error;
   the keys overlay does not name are as before. *)
C10_UpdateDict ==
    pc = "updated" =>
        /\ ~Failed(err)
        /\ \A i \in 1..Len(overlay.flds) :
            LET k == overlay.flds[i].key
                v == overlay.flds[i].val
            IN  /\ k \in KeysOf(out)
                /\ IF IsMapping(v) /\ k \in KeysOf(base) /\ IsMapping(Get(base, k))
                   THEN /\ IsMapping(Get(out, k))
                        /\ KeysOf(Get(base, k)) \subseteq KeysOf(Get(out, k))
                        /\ \A kk \in KeysOf(Get(base, k)) \ KeysOf(v) :
                              Get(Get(out, k), kk) = Get(Get(base, k), kk)
                        /\ \A kk \in KeysOf(v) :
                              ~IsMapping(Get(v, kk)) => Get(Get(out, k), kk) = Get(v, kk)
                   ELSE Get(out, k) = v
        /\ \A k \in KeysOf(base) \ KeysOf(overlay) :
              k \in KeysOf(out) /\ Get(out, k) = Get(base, k)

(***************************************************************************)
(* _string_to_callable on its own: the names it is called with are the     *)
(* strings of at most MaxNameLen characters over NameChars.                *)
(***************************************************************************)
MaxNameLen == 3
NameChars == {"m", "q", "f", "c", "z", ":"}
Names ==
    {PyStr(t) : t \in UNION {[1..k -> NameChars] : k \in 1..MaxNameLen}}

DecodeInit ==
    /\ DictIdle /\ timer = TimerIdle /\ kbd = KbdIdle
    /\ dec \in {[pc |-> "ready", name |-> n, ret |-> PyNone, err |-> NoError, msg |-> <<>>] :
                  n \in Names}

(* _string_to_callable(dec.name) *)
Decode ==
    /\ dec.pc = "ready"
    /\ dec' = [pc |-> "decoded", name |-> dec.name,
               ret |-> string_to_callable(dec.name).val,
               err |-> string_to_callable(dec.name).err,
               msg |-> string_to_callable_message(dec.name)]
    /\ UNCHANGED <<dictVars, timer, kbd>>

DecodeNext == Decode

SpecDecode == DecodeInit /\ [][DecodeNext]_vars

(* the text msg holds the string s, character for character *)
Carries(msg, s) ==
    \E i \in 0..(Len(msg) - Len(s)) : SubSeq(msg, i + 1, i + Len(s)) = s

Colons(name) == Cardinality({i \in 1..Len(name.toks) : name.toks[i] = ":"})
ModulePart(name) == SubSeq(name.toks, 1, (CHOOSE i \in 1..Len(name.toks) : name.toks[i] = ":") - 1)
AttrPart(name) ==
    SubSeq(name.toks, (CHOOSE i \in 1..Len(name.toks) : name.toks[i] = ":") + 1, Len(name.toks))
Loadable(name) == ModulePart(name) \in {<<mm>> : mm \in ModuleNames}
Defined(name) == AttrPart(name) \in {<<aa>> : aa \in ModuleAttrs}

(* C11: _string_to_callable returns a value only when that value is
   invocable, and otherwise fails with the error of its cause: the format
   error when the string has no or more than one ':', the resolution error
   when the module cannot be loaded or lacks the attribute, the not-callable
   error when the attribute is not invocable; each of these errors carries
   the original input string. *)
C11_DecodeErrors ==
    dec.pc = "decoded" =>
        /\ ~Failed(dec.err) => IsCallable(dec.ret)
        /\ Colons(dec.name) # 1 =>
              dec.err.why = "Format" /\ Carries(dec.msg, dec.name.toks)
        /\ (Colons(dec.name) = 1 /\ ~(Loadable(dec.name) /\ Defined(dec.name))) =>
              /\ dec.err.why \in {"EmptyModule", "NoModule", "NotInterpretable"}
              /\ Carries(dec.msg, dec.name.toks)
        /\ (Colons(dec.name) = 1 /\ Loadable(dec.name) /\ Defined(dec.name)
            /\ dec.name.toks[3] = "c") =>
              dec.err.why = "NotCallable" /\ Carries(dec.msg, dec.name.toks)

(***************************************************************************)
(* Se3Keyboard.  _delta_pos and _delta_rot are counted in units of          *)
(* pos_sensitivity and rot_sensitivity.  held is the set of movement and    *)
(* rotation keys that are down on the keyboard: a key is pressed when it is *)
(* up and released when it is down.                                         *)
(***************************************************************************)
MaxHeld == 2
MaxResets == 1

Zero3 == <<0, 0, 0>>
Add3(a, b) == [i \in 1..3 |-> a[i] + b[i]]
Sub3(a, b) == [i \in 1..3 |-> a[i] - b[i]]

PosKeys == {"W", "S", "A", "D", "Q", "E"}
RotKeys == {"Z", "X", "T", "G", "C", "V"}
(* _create_key_bindings *)
INPUT_KEY_MAPPING(k) ==
    CASE k = "W" -> <<1, 0, 0>>  [] k = "S" -> <<-1, 0, 0>>
      [] k = "D" -> <<0, 1, 0>>  [] k = "A" -> <<0, -1, 0>>
      [] k = "Q" -> <<0, 0, 1>>  [] k = "E" -> <<0, 0, -1>>
      [] k = "Z" -> <<1, 0, 0>>  [] k = "X" -> <<-1, 0, 0>>
      [] k = "T" -> <<0, 1, 0>>  [] k = "G" -> <<0, -1, 0>>
      [] k = "C" -> <<0, 0, 1>>  [] k = "V" -> <<0, 0, -1>>

(* the command buffers of the device *)
Buffers(pos, rot, grip) == [pos |-> pos, rot |-> rot, grip |-> grip]

(* Se3Keyboard.reset *)
kbd_reset(b) == Buffers(Zero3, Zero3, FALSE)

(* Se3Keyboard._on_keyboard_event, lines 131-139 *)
on_key_press(b, name) ==
    LET b1 == IF name = "L" THEN kbd_reset(b) ELSE b IN
    IF name = "K" THEN [b1 EXCEPT !.grip = ~b1.grip]
    ELSE IF name \in PosKeys THEN [b1 EXCEPT !.pos = Add3(b1.pos, INPUT_KEY_MAPPING(name))]
    ELSE IF name \in RotKeys THEN [b1 EXCEPT !.rot = Add3(b1.rot, INPUT_KEY_MAPPING(name))]
    ELSE b1

(* Se3Keyboard._on_keyboard_event, lines 141-145 *)
on_key_release(b, name) ==
    IF name \in PosKeys THEN [b EXCEPT !.pos = Sub3(b.pos, INPUT_KEY_MAPPING(name))]
    ELSE IF name \in RotKeys THEN [b EXCEPT !.rot = Sub3(b.rot, INPUT_KEY_MAPPING(name))]
    ELSE b

(* Se3Keyboard.advance: the rotation vector of the Euler angles _delta_rot is
   zero exactly when the angles are *)
kbd_advance(b) == [pos |-> b.pos, rot_vec_zero |-> b.rot = Zero3, grip |-> b.grip]

Kbd(op, b, held, resets, cmd) ==
    [op |-> op, buf |-> b, held |-> held, resets |-> resets, cmd |-> cmd]

KbdInit ==
    /\ DictIdle /\ dec = DecIdle /\ timer = TimerIdle
    /\ kbd = Kbd("init", Buffers(Zero3, Zero3, FALSE), {}, 0,
                 kbd_advance(Buffers(Zero3, Zero3, FALSE)))

KeyPress(k) ==
    /\ kbd.op # "idle"
    /\ k \notin kbd.held /\ Cardinality(kbd.held) < MaxHeld
    /\ kbd' = [kbd EXCEPT !.op = "press", !.buf = on_key_press(kbd.buf, k),
                           !.held = kbd.held \cup {k}]
    /\ UNCHANGED <<dictVars, dec, timer>>

KeyRelease(k) ==
    /\ kbd.op # "idle"
    /\ k \in kbd.held
    /\ kbd' = [kbd EXCEPT !.op = "release", !.buf = on_key_release(kbd.buf, k),
                           !.held = kbd.held \ {k}]
    /\ UNCHANGED <<dictVars, dec, timer>>

(* KEY_PRESS of the gripper key K *)
GripperKey ==
    /\ kbd.op # "idle"
    /\ kbd' = [kbd EXCEPT !.op = "press", !.buf = on_key_press(kbd.buf, "K")]
    /\ UNCHANGED <<dictVars, dec, timer>>

(* KEY_PRESS of the reset key L *)
ResetKey ==
    /\ kbd.op # "idle"
    /\ kbd.resets < MaxResets
    /\ kbd' = [kbd EXCEPT !.op = "press", !.buf = on_key_press(kbd.buf, "L"),
                           !.resets = kbd.resets + 1]
    /\ UNCHANGED <<dictVars, dec, timer>>

(* a call of reset() *)
ResetCall ==
    /\ kbd.op # "idle"
    /\ kbd.resets < MaxResets
    /\ kbd' = [kbd EXCEPT !.op = "reset", !.buf = kbd_reset(kbd.buf),
                           !.resets = kbd.resets + 1]
    /\ UNCHANGED <<dictVars, dec, timer>>

(* a call of advance() *)
Advance ==
    /\ kbd.op # "idle"
    /\ kbd' = [kbd EXCEPT !.op = "advance", !.cmd = kbd_advance(kbd.buf)]
    /\ UNCHANGED <<dictVars, dec, timer>>

(* the keys the keyboard presses *)
Keys == {"W", "S", "D", "Z", "X", "C"}

KbdNext ==
    \/ \E k \in Keys : KeyPress(k)
    \/ \E k \in Keys : KeyRelease(k)
    \/ GripperKey
    \/ ResetKey
    \/ ResetCall
    \/ Advance

SpecKbd == KbdInit /\ [][KbdNext]_vars

(* C12: whenever no movement or rotation key is held, _delta_pos and
   _delta_rot are both zero, and advance() returns a zero delta pose. *)
C12_NeutralWhenReleased ==
    (kbd.op # "idle" /\ kbd.held = {}) =>
        /\ kbd.buf.pos = Zero3 /\ kbd.buf.rot = Zero3
        /\ kbd.op = "advance" => (kbd.cmd.pos = Zero3 /\ kbd.cmd.rot_vec_zero)

(***************************************************************************)
(* Timer.  An Optional[float] attribute is the empty set for None and {t}   *)
(* for the reading t of time.perf_counter(), a clock that never goes back.  *)
(***************************************************************************)
MaxTime == 3

TimerObj(start, stop, elapsed) ==
    [_start_time |-> start, _stop_time |-> stop, _elapsed_time |-> elapsed]

(* Timer.__init__ *)
timer_init == TimerObj({}, {}, {})

(* Timer.total_run_time *)
total_run_time(t) == t._elapsed_time

(* Timer.stop without the reset of _start_time *)
timer_stop_keeps_running(t, now) ==
    IF t._start_time = {} THEN [obj |-> t, raised |-> TRUE]
    ELSE [obj |-> TimerObj(t._start_time, {now}, {now - s : s \in t._start_time}),
          raised |-> FALSE]

(* Timer.start *)
timer_start(t, now) ==
    IF t._start_time # {} THEN [obj |-> t, raised |-> TRUE]
    ELSE [obj |-> [t EXCEPT !._start_time = {now}], raised |-> FALSE]

(* Timer.stop *)
timer_stop(t, now) ==
    IF t._start_time = {} THEN [obj |-> t, raised |-> TRUE]
    ELSE [obj |-> TimerObj({}, {now}, {now - s : s \in t._start_time}),
          raised |-> FALSE]

(* op is the last call, prev the attributes before it, raised whether it
   raised TimerError, at the clock reading it took, started the reading at the
   last start() that returned, printed what __exit__ printed *)
TimerInit ==
    /\ DictIdle /\ dec = DecIdle /\ kbd = KbdIdle
    /\ \E m \in BOOLEAN :
          timer = [op |-> "init", obj |-> timer_init, prev |-> timer_init, raised |-> FALSE,
                   now |-> 0, at |-> 0, started |-> {}, has_msg |-> m, printed |-> {}]

TimerCalled(op, r) ==
    [timer EXCEPT !.op = op, !.prev = timer.obj, !.obj = r.obj, !.raised = r.raised,
                  !.at = timer.now,
                  !.started = IF op \in {"start", "enter"} /\ ~r.raised
                              THEN {timer.now} ELSE timer.started,
                  !.printed = IF op = "exit" /\ ~r.raised /\ timer.has_msg
                              THEN r.obj._elapsed_time ELSE {}]

Tick ==
    /\ timer.op # "idle"
    /\ timer.now < MaxTime
    /\ timer' = [timer EXCEPT !.now = timer.now + 1]
    /\ UNCHANGED <<dictVars, dec, kbd>>

TimerStart ==
    /\ timer.op # "idle"
    /\ timer' = TimerCalled("start", timer_start(timer.obj, timer.now))
    /\ UNCHANGED <<dictVars, dec, kbd>>

TimerStop ==
    /\ timer.op # "idle"
    /\ timer' = TimerCalled("stop", timer_stop(timer.obj, timer.now))
    /\ UNCHANGED <<dictVars, dec, kbd>>

(* Timer.__enter__ *)
TimerEnter ==
    /\ timer.op # "idle"
    /\ timer' = TimerCalled("enter", timer_start(timer.obj, timer.now))
    /\ UNCHANGED <<dictVars, dec, kbd>>

(* Timer.__exit__ *)
TimerExit ==
    /\ timer.op # "idle"
    /\ timer' = TimerCalled("exit", timer_stop(timer.obj, timer.now))
    /\ UNCHANGED <<dictVars, dec, kbd>>

TimerNext == Tick \/ TimerStart \/ TimerStop \/ TimerEnter \/ TimerExit

SpecTimer == TimerInit /\ [][TimerNext]_vars

Starting == timer.op \in {"start", "enter"}
Stopping == timer.op \in {"stop", "exit"}
Running(t) == t._start_time # {}

(* C13: start() on a running timer and stop() on a timer that is not running
   raise TimerError and leave _start_time, _stop_time and _elapsed_time as
   they were; a stop() on a running timer does not raise, sets total_run_time
   to the stop time minus the time of the most recent successful start and
   leaves the timer not running; a start() on a timer that is not running
   does not raise and leaves it running. *)
C13_StartStopAlternation ==
    /\ (Starting /\ Running(timer.prev)) => (timer.raised /\ timer.obj = timer.prev)
    /\ (Stopping /\ ~Running(timer.prev)) => (timer.raised /\ timer.obj = timer.prev)
    /\ (Stopping /\ Running(timer.prev)) =>
          /\ ~timer.raised
          /\ timer.obj._stop_time = {timer.at}
          /\ total_run_time(timer.obj) = {timer.at - s : s \in timer.started}
          /\ timer.started # {}
          /\ ~Running(timer.obj)
    /\ (Starting /\ ~Running(timer.prev)) =>
          /\ ~timer.raised
          /\ timer.obj = [timer.prev EXCEPT !._start_time = {timer.at}]

(* a second cycle: a stop that succeeds after an earlier stop and a later
   start, with time passed in between *)
C13_Witness ==
    /\ Stopping /\ ~timer.raised
    /\ timer.prev._stop_time # {}
    /\ \E s \in timer.started : \E p \in timer.prev._stop_time : p < s /\ s < timer.at

====
